---- MODULE Spec2Model ----
(***************************************************************************)
(* Model of src/utils.py: the Slack channel utilities (poll, inspect,      *)
(* download, upload, delete, send message) around a channel that is meant  *)
(* to hold at most one file.                                               *)
(*                                                                         *)
(* The remote workspace (channels and their files), the local filesystem   *)
(* with the file handles held open on it, and the cached configuration are *)
(* the state.  Every public function is                                    *)
(* one action; the outcome of the last call (return value or exception,    *)
(* the remote calls it made, the error records it logged) is kept in       *)
(* `call`, `result`, `calls` and `errlogs`.  A posted message is kept as   *)
(* the chat_postMessage call and its receipt: no function of the module    *)
(* reads a channel's message history back.                                 *)
(***************************************************************************)
EXTENDS Integers, Sequences, FiniteSets, TLC

\* ------------------------------------------------------------------ bounds
MaxFiles == 2        \* uploads over a behaviour (file ids 1..MaxFiles)

\* ------------------------------------------------------------------ values
None  == "None"      \* Python None
Empty == ""          \* the empty string (falsy, but not None)

Channels      == {"CA", "CB"}          \* channels that exist in the workspace
ValidBot      == {"xoxb-1", "xoxb-2"}  \* live bot tokens
ValidUser     == {"xoxp-1", "xoxp-2"}  \* live user tokens

\* what the environment (.env) may hold
EnvChannel    == {None, "CA"}
EnvBotToken   == {None, "xoxb-1"}
EnvUserToken  == {None, "xoxp-1"}

\* what a caller may pass
ArgChannel    == {None, "CB"}
ArgBotToken   == {None, "xoxb-2"}
ArgUserToken  == {None, "xoxp-2"}
ArgTitle      == {None, "Report"}
Texts         == {"done"}

\* local paths are <<directory, base name>>
UploadPaths   == {<<"in", "a.png">>, <<"in", "missing.png">>}
OutputDirs    == {"out", "nodir"}
ExistingDirs  == {"in", "out"}

\* the local files at the start: one to upload, and an older download
InitDisk ==
    (<<"in", "a.png">> :> <<1, 2>>) @@ (<<"out", "a.png">> :> <<9, 9, 9>>)

VARIABLES
    config,     \* _config_cache as loaded from the environment
    remote,     \* channel -> sequence of files the listing reports
    nextId,     \* next remote file id
    disk,       \* local path -> content, for the paths that exist
    pubs,       \* channel -> successful uploads since the last delete there
    handles,    \* local paths the process holds an open file handle on
    call,       \* the last call: function name and arguments
    result,     \* how it ended: a return value or an exception
    calls,      \* the remote calls it made, in order
    errlogs     \* error-level log records it emitted

vars == <<config, remote, nextId, disk, pubs, handles, call, result, calls, errlogs>>

\* ----------------------------------------------------------- Python values
Truthy(x) == x /= None /\ x /= Empty

\* `a or b`
PyOr(a, b) == IF Truthy(a) THEN a ELSE b

\* a returned bool, file_info dict, path, permalink or API response
Return(v)  == [kind |-> "return", none |-> FALSE, value |-> v]
ReturnInfo(v) == [kind |-> "return", none |-> FALSE, info |-> v]
ReturnPath(v) == [kind |-> "return", none |-> FALSE, path |-> v]
ReturnUrl(v) == [kind |-> "return", none |-> FALSE, url |-> v]
ReturnResponse(v) == [kind |-> "return", none |-> FALSE, response |-> v]
ReturnNone == [kind |-> "return", none |-> TRUE]
Raise(exc, msg) == [kind |-> "raise", exc |-> exc, msg |-> msg]
\* a ValueError whose message interpolates file_count
RaiseCount(msg, n) == [kind |-> "raise", exc |-> "ValueError", msg |-> msg, count |-> n]

Returned(r)     == r.kind = "return"
ReturnedNone(r) == r.kind = "return" /\ r.none
ReturnedVal(r)  == r.kind = "return" /\ ~r.none
Raised(r, exc)  == r.kind = "raise" /\ r.exc = exc

\* an outcome: the result, the remote calls made, the error records logged
Outcome(r, cs, n) == [result |-> r, calls |-> cs, errlogs |-> n]

\* ------------------------------------------------------------- local paths
basename(path) == path[2]

\* f"{output_dir}/{file_name}"
JoinPath(output_dir, file_name) == <<output_dir, file_name>>

exists(d, path) == path \in DOMAIN d

\* --------------------------------------------------------- remote platform
FileCount(ch) == Len(remote[ch])

TotalFiles == FileCount("CA") + FileCount("CB")

UrlPrivate(id) == <<"url_private", id>>

PermalinkPublic(id) == <<"permalink_public", id>>

\* what files_list reports of each file
RECURSIVE FileEntries(_)
FileEntries(files) ==
    IF files = <<>> THEN <<>>
    ELSE <<[id |-> Head(files).id, name |-> Head(files).name,
            url_private |-> Head(files).url_private]>> \o FileEntries(Tail(files))

\* the files_list response for a channel
ListFiles(ch) == FileEntries(remote[ch])

\* a call reaches the platform and is accepted
ApiAccepts(ch, token, valid, net) == net /\ ch \in Channels /\ token \in valid

\* every file the workspace holds
RemoteFiles == UNION {{remote[ch][i] : i \in 1..Len(remote[ch])} : ch \in Channels}

\* the remote file a private URL or an id refers to, as a set (empty if gone)
FilesByUrl(url) == {f \in RemoteFiles : f.url_private = url}

FilesById(id) == {f \in RemoteFiles : f.id = id}

\* ------------------------------------------------------------ remote calls
FilesListCall(ch, token, net) ==
    LET ok == ApiAccepts(ch, token, ValidBot, net)
    IN  [api |-> "files_list", channel |-> ch, token |-> token, ok |-> ok,
         files |-> IF ok THEN ListFiles(ch) ELSE <<>>]

FilesUploadCall(ch, token, title, file_path, net) ==
    [api |-> "files_upload_v2", channel |-> ch, token |-> token, title |-> title,
     path |-> file_path, ok |-> ApiAccepts(ch, token, ValidBot, net)]

FilesDeleteCall(file_id, token, net) ==
    [api |-> "files_delete", file |-> file_id, token |-> token,
     ok |-> net /\ token \in ValidUser /\ FilesById(file_id) /= {}]

PostMessageCall(ch, token, text, net) ==
    [api |-> "chat_postMessage", channel |-> ch, token |-> token, text |-> text,
     ok |-> ApiAccepts(ch, token, ValidBot, net)]

AuthTestCall(token, valid, net) ==
    [api |-> "auth_test", token |-> token, ok |-> net /\ token \in valid]

\* requests.get(url_private, headers={'Authorization': 'Bearer <token>'}) and
\* raise_for_status()
RequestsGetCall(url, token, net) ==
    [api |-> "requests.get", url |-> url, token |-> token,
     ok |-> net /\ token \in ValidBot /\ FilesByUrl(url) /= {}]

\* ---------------------------------------------------------------- helpers
\* Every function below takes the cached configuration `cfg` it reads through
\* get_config() as its first parameter.

\* the token the bot WebClient is built with, None when it cannot be built
create_bot_client(cfg, bot_token) ==
    IF bot_token = None THEN cfg.bot_token ELSE bot_token

\* a user client that falls back to the bot token
create_user_client_fallback(cfg, user_token) ==
    IF user_token /= None THEN user_token
    ELSE IF cfg.user_token /= None THEN cfg.user_token
    ELSE cfg.bot_token

\* the token the user WebClient is built with, None when it cannot be built
create_user_client(cfg, user_token) ==
    IF user_token = None THEN cfg.user_token ELSE user_token

NoChannelError == Raise("ValueError", "channel_id not provided and CHANNEL_ID not in environment")
NoBotTokenError == Raise("ValueError", "bot_token not provided and BOT_TOKEN not in environment")
NoUserTokenError == Raise("ValueError", "user_token not provided and USER_TOKEN not in environment")

ErrCount(r) == IF r.kind = "raise" THEN 1 ELSE 0

\* -------------------------------------------------------------- poll_channel
\* a poll that takes any non-empty channel as ready
poll_decide_lenient(file_count) ==
    IF file_count >= 1 THEN Return(TRUE) ELSE Return(FALSE)

\* the branch on file_count in poll_channel
poll_decide(file_count) ==
    IF file_count = 1 THEN Return(TRUE)
    ELSE IF file_count = 0 THEN Return(FALSE)
    ELSE RaiseCount("During polling, found {file_count} files in the channel", file_count)

poll_channel(cfg, channel_id, bot_token, net) ==
    LET ch  == PyOr(channel_id, cfg.channel_id)
        tok == create_bot_client(cfg, PyOr(bot_token, cfg.bot_token))
    IN  IF ch = None THEN Outcome(NoChannelError, <<>>, 0)
        ELSE IF tok = None THEN Outcome(NoBotTokenError, <<>>, 0)
        ELSE LET response == FilesListCall(ch, tok, net)
             IN  IF ~response.ok
                 THEN Outcome(Raise("SlackApiError", "files_list"), <<response>>, 1)
                 ELSE LET r == poll_decide(Len(response.files))
                      IN  Outcome(r, <<response>>, ErrCount(r))

\* ------------------------------------------------------------- get_file_info
\* an inspect that takes the first listed file whenever there is one
file_info_decide_first(files) ==
    IF Len(files) >= 1
    THEN ReturnInfo([file_name |-> files[1].name, url_private |-> files[1].url_private,
                     file_id |-> files[1].id])
    ELSE ReturnNone

\* the branch on file_count in get_file_info
file_info_decide(files) ==
    IF Len(files) = 1
    THEN ReturnInfo([file_name |-> files[1].name, url_private |-> files[1].url_private,
                     file_id |-> files[1].id])
    ELSE IF Len(files) = 0 THEN ReturnNone
    ELSE RaiseCount("There are {file_count} files in the channel", Len(files))

get_file_info(cfg, channel_id, bot_token, net) ==
    LET ch  == PyOr(channel_id, cfg.channel_id)
        tok == create_bot_client(cfg, PyOr(bot_token, cfg.bot_token))
    IN  IF ch = None THEN Outcome(NoChannelError, <<>>, 0)
        ELSE IF tok = None THEN Outcome(NoBotTokenError, <<>>, 0)
        ELSE LET response == FilesListCall(ch, tok, net)
             IN  IF ~response.ok
                 THEN Outcome(Raise("SlackApiError", "files_list"), <<response>>, 1)
                 ELSE LET r == file_info_decide(response.files)
                      IN  Outcome(r, <<response>>, ErrCount(r))

\* ------------------------------------------------------------- download_file
Min(a, b) == IF a < b THEN a ELSE b

\* what iter_content yields for a payload: the payload cut in two chunks at
\* `cut`, with an empty keep-alive chunk in between when `keepalive`
ChunkStream(payload, cut, keepalive) ==
    LET k == Min(cut, Len(payload))
    IN  <<SubSeq(payload, 1, k)>> \o (IF keepalive THEN << <<>> >> ELSE <<>>)
            \o <<SubSeq(payload, k + 1, Len(payload))>>

\* a chunk loop that takes an empty chunk for the end of the stream
RECURSIVE WriteChunks_break(_, _)
WriteChunks_break(stream, n) ==
    IF n = 0 \/ stream = <<>> \/ Head(stream) = <<>> THEN <<>>
    ELSE Head(stream) \o WriteChunks_break(Tail(stream), n - 1)

\* the loop `for chunk in ...: if chunk: f.write(chunk)` over the first n chunks
RECURSIVE WriteChunks(_, _)
WriteChunks(stream, n) ==
    IF n = 0 \/ stream = <<>> THEN <<>>
    ELSE (IF Head(stream) /= <<>> THEN Head(stream) ELSE <<>>)
            \o WriteChunks(Tail(stream), n - 1)

\* an outcome of download_file: the disk and the open file handles it leaves
\* are part of it
DiskOutcome(r, cs, n, d, h) ==
    [result |-> r, calls |-> cs, errlogs |-> n, disk |-> d, handles |-> h]

\* open(output_path, 'wb'): the file exists and is empty, a handle is held on it
open_wb(d, output_path) == (output_path :> <<>>) @@ d

\* a block that closes the handle only when it ran to its end
with_exit_success_only(h, output_path, raised) ==
    IF raised THEN h ELSE h \ {output_path}

\* leaving the `with open(...) as f:` block, normally or by an exception:
\* f.__exit__ closes the handle
with_exit(h, output_path, raised) == h \ {output_path}

\* a download that leaves an empty placeholder when there is nothing to fetch
download_absent_touch(output_dir, info, d, h) ==
    DiskOutcome(ReturnNone, info.calls, 0,
                (JoinPath(output_dir, "download.part") :> <<>>) @@ d, h)

\* lines 380-382: no file in the channel
download_absent(output_dir, info, d, h) == DiskOutcome(ReturnNone, info.calls, 0, d, h)

\* lines 384-407: a file was found.
\* env.get: the request succeeds; env.cut, env.keepalive: how the payload is
\* chunked; env.recv: chunks received before the connection breaks.
download_present(output_dir, file_info, bot_token, env, d, h) ==
    LET output_path == JoinPath(output_dir, file_info.file_name)
        get == RequestsGetCall(file_info.url_private, bot_token, env.get)
    IN  IF ~get.ok
        THEN DiskOutcome(Raise("RequestException", "requests.get"), <<get>>, 1, d, h)
        ELSE IF output_dir \notin ExistingDirs
        THEN DiskOutcome(Raise("IOError", "open"), <<get>>, 1, d, h)
        ELSE LET payload == (CHOOSE f \in FilesByUrl(file_info.url_private) : TRUE).content
                 stream  == ChunkStream(payload, env.cut, env.keepalive)
                 n       == Min(env.recv, Len(stream))
                 opened  == h \cup {output_path}
                 written == (output_path :> WriteChunks(stream, n)) @@ open_wb(d, output_path)
                 raised  == n < Len(stream)
                 left    == with_exit(opened, output_path, raised)
             IN  IF raised
                 THEN DiskOutcome(Raise("RequestException", "iter_content"), <<get>>, 1,
                                  written, left)
                 ELSE DiskOutcome(ReturnPath(output_path), <<get>>, 0, written, left)

\* a download that fetches the bytes with the configured token, whatever token
\* was passed
download_file_config_token(cfg, output_dir, channel_id, bot_token, env, d, h) ==
    LET tok  == PyOr(bot_token, cfg.bot_token)
        info == get_file_info(cfg, channel_id, tok, env.list)
    IN  IF info.result.kind = "raise"
        THEN DiskOutcome(info.result, info.calls, info.errlogs, d, h)
        ELSE IF info.result.none THEN download_absent(output_dir, info, d, h)
        ELSE LET o == download_present(output_dir, info.result.info, cfg.bot_token, env, d, h)
             IN  DiskOutcome(o.result, info.calls \o o.calls, info.errlogs + o.errlogs,
                             o.disk, o.handles)

download_file(cfg, output_dir, channel_id, bot_token, env, d, h) ==
    LET tok  == PyOr(bot_token, cfg.bot_token)
        info == get_file_info(cfg, channel_id, tok, env.list)
    IN  IF info.result.kind = "raise"
        THEN DiskOutcome(info.result, info.calls, info.errlogs, d, h)
        ELSE IF info.result.none THEN download_absent(output_dir, info, d, h)
        ELSE LET o == download_present(output_dir, info.result.info, tok, env, d, h)
             IN  DiskOutcome(o.result, info.calls \o o.calls, info.errlogs + o.errlogs,
                             o.disk, o.handles)

\* --------------------------------------------------------------- upload_file
\* the remote file files_upload_v2 creates
NewFile(id, file_path, d) ==
    [id |-> id, name |-> basename(file_path),
     url_private |-> UrlPrivate(id), content |-> d[file_path]]

\* an outcome of upload_file: `uploaded` says whether a remote file was created
UploadOutcome(r, cs, n, up) == [result |-> r, calls |-> cs, errlogs |-> n, uploaded |-> up]

\* an upload that finds out that the file is missing only while sending it
upload_file_late_check(cfg, file_path, title, channel_id, bot_token, net, d) ==
    LET ch  == PyOr(channel_id, cfg.channel_id)
        tok == create_bot_client(cfg, PyOr(bot_token, cfg.bot_token))
        ttl == IF title = None THEN basename(file_path) ELSE title
    IN  IF ch = None THEN UploadOutcome(NoChannelError, <<>>, 0, FALSE)
        ELSE IF tok = None THEN UploadOutcome(NoBotTokenError, <<>>, 0, FALSE)
        ELSE LET response == FilesUploadCall(ch, tok, ttl, file_path, net)
             IN  IF ~exists(d, file_path)
                 THEN UploadOutcome(Raise("FileNotFoundError", "File not found: {file_path}"),
                                    <<response>>, 0, FALSE)
                 ELSE IF ~response.ok
                 THEN UploadOutcome(Raise("SlackApiError", "files_upload_v2"),
                                    <<response>>, 1, FALSE)
                 ELSE UploadOutcome(ReturnUrl(PermalinkPublic(nextId)), <<response>>, 0, TRUE)

\* an upload that refuses to add a file to a channel that already holds one
upload_file_guarded(cfg, file_path, title, channel_id, bot_token, net, d) ==
    LET ch  == PyOr(channel_id, cfg.channel_id)
        tok == create_bot_client(cfg, PyOr(bot_token, cfg.bot_token))
        ttl == IF title = None THEN basename(file_path) ELSE title
    IN  IF ch = None THEN UploadOutcome(NoChannelError, <<>>, 0, FALSE)
        ELSE IF ~exists(d, file_path)
        THEN UploadOutcome(Raise("FileNotFoundError", "File not found: {file_path}"),
                           <<>>, 0, FALSE)
        ELSE IF tok = None THEN UploadOutcome(NoBotTokenError, <<>>, 0, FALSE)
        ELSE IF ch \in Channels /\ FileCount(ch) >= 1
        THEN UploadOutcome(RaiseCount("There are {file_count} files in the channel",
                                      FileCount(ch)), <<>>, 1, FALSE)
        ELSE LET response == FilesUploadCall(ch, tok, ttl, file_path, net)
             IN  IF ~response.ok
                 THEN UploadOutcome(Raise("SlackApiError", "files_upload_v2"),
                                    <<response>>, 1, FALSE)
                 ELSE UploadOutcome(ReturnUrl(PermalinkPublic(nextId)), <<response>>, 0, TRUE)

upload_file(cfg, file_path, title, channel_id, bot_token, net, d) ==
    LET ch  == PyOr(channel_id, cfg.channel_id)
        tok == create_bot_client(cfg, PyOr(bot_token, cfg.bot_token))
        ttl == IF title = None THEN basename(file_path) ELSE title
    IN  IF ch = None THEN UploadOutcome(NoChannelError, <<>>, 0, FALSE)
        ELSE IF ~exists(d, file_path)
        THEN UploadOutcome(Raise("FileNotFoundError", "File not found: {file_path}"),
                           <<>>, 0, FALSE)
        ELSE IF tok = None THEN UploadOutcome(NoBotTokenError, <<>>, 0, FALSE)
        ELSE LET response == FilesUploadCall(ch, tok, ttl, file_path, net)
             IN  IF ~response.ok
                 THEN UploadOutcome(Raise("SlackApiError", "files_upload_v2"),
                                    <<response>>, 1, FALSE)
                 ELSE UploadOutcome(ReturnUrl(PermalinkPublic(nextId)), <<response>>, 0, TRUE)

\* --------------------------------------------------------------- delete_file
\* a delete that treats an empty channel as an error
delete_absent_error(info) ==
    Outcome(Raise("ValueError", "No files to delete"), info.calls, 1)

\* lines 506-508: no file in the channel
delete_absent(info) == Outcome(Return(FALSE), info.calls, 0)

\* a delete that sends the request a second time
delete_present_twice(cfg, file_info, user_token, net) ==
    LET tok == create_user_client(cfg, user_token)
    IN  IF tok = None THEN Outcome(NoUserTokenError, <<>>, 1)
        ELSE LET del == FilesDeleteCall(file_info.file_id, tok, net)
             IN  IF ~del.ok
                 THEN Outcome(Raise("SlackApiError", "files_delete"), <<del, del>>, 1)
                 ELSE Outcome(Return(TRUE), <<del, del>>, 0)

\* lines 510-520: a file was found
delete_present(cfg, file_info, user_token, net) ==
    LET tok == create_user_client(cfg, user_token)
    IN  IF tok = None THEN Outcome(NoUserTokenError, <<>>, 1)
        ELSE LET del == FilesDeleteCall(file_info.file_id, tok, net)
             IN  IF ~del.ok
                 THEN Outcome(Raise("SlackApiError", "files_delete"), <<del>>, 1)
                 ELSE Outcome(Return(TRUE), <<del>>, 0)

\* a delete that lists the channel itself and removes the first file it sees
delete_file_bypass(cfg, channel_id, user_token, netList, netDel) ==
    LET ch  == PyOr(channel_id, cfg.channel_id)
        tok == create_bot_client(cfg, cfg.bot_token)
    IN  IF ch = None THEN Outcome(NoChannelError, <<>>, 0)
        ELSE IF tok = None THEN Outcome(NoBotTokenError, <<>>, 0)
        ELSE LET response == FilesListCall(ch, tok, netList)
             IN  IF ~response.ok
                 THEN Outcome(Raise("SlackApiError", "files_list"), <<response>>, 1)
                 ELSE IF Len(response.files) = 0
                 THEN Outcome(Return(FALSE), <<response>>, 0)
                 ELSE LET o == delete_present(cfg, [file_name |-> response.files[1].name,
                                   url_private |-> response.files[1].url_private,
                                   file_id |-> response.files[1].id], user_token, netDel)
                      IN  Outcome(o.result, <<response>> \o o.calls, o.errlogs)

delete_file(cfg, channel_id, user_token, netList, netDel) ==
    LET ch == PyOr(channel_id, cfg.channel_id)
    IN  IF ch = None THEN Outcome(NoChannelError, <<>>, 0)
        ELSE LET info == get_file_info(cfg, ch, None, netList)
             IN  IF info.result.kind = "raise" THEN info
                 ELSE IF info.result.none THEN delete_absent(info)
                 ELSE LET o == delete_present(cfg, info.result.info, user_token, netDel)
                      IN  Outcome(o.result, info.calls \o o.calls, info.errlogs + o.errlogs)

\* -------------------------------------------------------------- send_message
send_message(cfg, message, channel_id, bot_token, net) ==
    LET ch  == PyOr(channel_id, cfg.channel_id)
        tok == create_bot_client(cfg, PyOr(bot_token, cfg.bot_token))
    IN  IF ch = None THEN Outcome(NoChannelError, <<>>, 0)
        ELSE IF tok = None THEN Outcome(NoBotTokenError, <<>>, 0)
        ELSE LET response == PostMessageCall(ch, tok, message, net)
             IN  IF ~response.ok
                 THEN Outcome(Raise("SlackApiError", "chat_postMessage"), <<response>>, 1)
                 ELSE Outcome(ReturnResponse([ok |-> TRUE, channel |-> ch, text |-> message]),
                              <<response>>, 0)

\* ------------------------------------------------------------ authentication
test_bot_auth(cfg, bot_token, net) ==
    LET tok == create_bot_client(cfg, bot_token)
    IN  IF tok = None THEN Outcome(NoBotTokenError, <<>>, 1)
        ELSE LET response == AuthTestCall(tok, ValidBot, net)
             IN  IF ~response.ok
                 THEN Outcome(Raise("SlackApiError", "auth_test"), <<response>>, 1)
                 ELSE Outcome(ReturnResponse([ok |-> TRUE, user_id |-> tok]), <<response>>, 0)

test_user_auth(cfg, user_token, net) ==
    LET tok == create_user_client(cfg, user_token)
    IN  IF tok = None THEN Outcome(NoUserTokenError, <<>>, 1)
        ELSE LET response == AuthTestCall(tok, ValidUser, net)
             IN  IF ~response.ok
                 THEN Outcome(Raise("SlackApiError", "auth_test"), <<response>>, 1)
                 ELSE Outcome(ReturnResponse([ok |-> TRUE, user_id |-> tok]), <<response>>, 0)

\* ===================================================================== state
\* the environment is complete, lacks the user token, or is empty
Configs ==
    {c \in [channel_id : EnvChannel, bot_token : EnvBotToken, user_token : EnvUserToken] :
        (c.channel_id = None) = (c.bot_token = None) /\ (c.bot_token = None => c.user_token = None)}

Init ==
    /\ config \in Configs
    /\ remote = [ch \in Channels |-> <<>>]
    /\ nextId = 1
    /\ disk = InitDisk
    /\ pubs = [ch \in Channels |-> 0]
    /\ handles = {}
    /\ call = [op |-> "none"]
    /\ result = ReturnNone
    /\ calls = <<>>
    /\ errlogs = 0

\* the call ended with outcome o
Ended(c, o) ==
    /\ call' = c
    /\ result' = o.result
    /\ calls' = o.calls
    /\ errlogs' = o.errlogs

\* what the network does during a download: the listing fails, the request
\* fails, or the payload arrives as <<>>, <<1, 2>> or as <<1>>, <<>>, <<2>> and
\* the connection may break after `recv` chunks
DownloadEnvs ==
    {e \in [list : BOOLEAN, get : BOOLEAN, cut : 0..1, keepalive : BOOLEAN, recv : 0..3] :
        /\ e.keepalive = (e.cut = 1)
        /\ ~e.list => e.get
        /\ ~(e.list /\ e.get) => (e.cut = 0 /\ e.recv = 0)}

TestBotAuth ==
    \E bot_token \in ArgBotToken, net \in BOOLEAN :
        /\ Ended([op |-> "test_bot_auth", bot_token |-> bot_token],
                 test_bot_auth(config, bot_token, net))
        /\ UNCHANGED <<config, remote, nextId, disk, pubs, handles>>

TestUserAuth ==
    \E user_token \in ArgUserToken, net \in BOOLEAN :
        /\ Ended([op |-> "test_user_auth", user_token |-> user_token],
                 test_user_auth(config, user_token, net))
        /\ UNCHANGED <<config, remote, nextId, disk, pubs, handles>>

PollChannel ==
    \E channel_id \in ArgChannel, bot_token \in ArgBotToken, net \in BOOLEAN :
        /\ Ended([op |-> "poll_channel", channel_id |-> channel_id, bot_token |-> bot_token],
                 poll_channel(config, channel_id, bot_token, net))
        /\ UNCHANGED <<config, remote, nextId, disk, pubs, handles>>

GetFileInfo ==
    \E channel_id \in ArgChannel, bot_token \in ArgBotToken, net \in BOOLEAN :
        /\ Ended([op |-> "get_file_info", channel_id |-> channel_id, bot_token |-> bot_token],
                 get_file_info(config, channel_id, bot_token, net))
        /\ UNCHANGED <<config, remote, nextId, disk, pubs, handles>>

DownloadFile ==
    \E output_dir \in OutputDirs, channel_id \in ArgChannel, bot_token \in ArgBotToken,
       env \in DownloadEnvs :
        LET o == download_file(config, output_dir, channel_id, bot_token, env, disk, handles)
        IN  /\ Ended([op |-> "download_file", output_dir |-> output_dir,
                      channel_id |-> channel_id, bot_token |-> bot_token], o)
            /\ disk' = o.disk
            /\ handles' = o.handles
            /\ UNCHANGED <<config, remote, nextId, pubs>>

UploadFile ==
    \E file_path \in UploadPaths, title \in ArgTitle, channel_id \in ArgChannel,
       bot_token \in ArgBotToken, net \in BOOLEAN :
        LET o == upload_file(config, file_path, title, channel_id, bot_token, net, disk)
        IN  /\ nextId <= MaxFiles
            /\ Ended([op |-> "upload_file", file_path |-> file_path, title |-> title,
                      channel_id |-> channel_id, bot_token |-> bot_token], o)
            /\ IF o.uploaded
               THEN LET ch == o.calls[1].channel
                    IN  /\ remote' = [remote EXCEPT ![ch] =
                               Append(@, NewFile(nextId, file_path, disk))]
                        /\ nextId' = nextId + 1
                        /\ pubs' = [pubs EXCEPT ![ch] = @ + 1]
               ELSE UNCHANGED <<remote, nextId, pubs>>
            /\ UNCHANGED <<config, disk, handles>>

DeleteFile ==
    \E channel_id \in ArgChannel, user_token \in ArgUserToken,
       netList \in BOOLEAN, netDel \in BOOLEAN :
        LET o == delete_file(config, channel_id, user_token, netList, netDel)
            dels == {i \in 1..Len(o.calls) : o.calls[i].api = "files_delete" /\ o.calls[i].ok}
            ids == {o.calls[i].file : i \in dels}
        IN  /\ Ended([op |-> "delete_file", channel_id |-> channel_id,
                      user_token |-> user_token], o)
            /\ remote' = [ch \in Channels |->
                            SelectSeq(remote[ch], LAMBDA f : f.id \notin ids)]
            /\ pubs' = [ch \in Channels |->
                            IF \E i \in 1..Len(remote[ch]) : remote[ch][i].id \in ids
                            THEN 0 ELSE pubs[ch]]
            /\ UNCHANGED <<config, nextId, disk, handles>>

SendMessage ==
    \E message \in Texts, channel_id \in ArgChannel, bot_token \in ArgBotToken,
       net \in BOOLEAN :
        LET o == send_message(config, message, channel_id, bot_token, net)
        IN  /\ Ended([op |-> "send_message", message |-> message,
                      channel_id |-> channel_id, bot_token |-> bot_token], o)
            /\ UNCHANGED <<config, remote, nextId, disk, pubs, handles>>

Next ==
    \/ TestBotAuth
    \/ TestUserAuth
    \/ PollChannel
    \/ GetFileInfo
    \/ DownloadFile
    \/ UploadFile
    \/ DeleteFile
    \/ SendMessage

Spec == Init /\ [][Next]_vars

\* ==================================================================== claims
\* the channel and the bot token a call resolves to
CallChannel == PyOr(call.channel_id, config.channel_id)
CallBotToken == PyOr(call.bot_token, config.bot_token)

\* the metadata get_file_info reports for a remote file
InfoOf(f) == [file_name |-> f.name, url_private |-> f.url_private, file_id |-> f.id]

\* C1: poll_channel, with a channel id and a bot token available, makes the
\* listing call (once, on that channel), and when the listing succeeds it
\* returns False for a channel with 0 files, True for a channel with exactly 1
\* file, and for every larger count raises the ValueError whose message names
\* that count, returning no value.
C1_PollDecisionTable ==
    (call.op = "poll_channel" /\ CallChannel /= None /\ CallBotToken /= None) =>
        /\ Len(calls) = 1
        /\ calls[1].api = "files_list"
        /\ calls[1].channel = CallChannel
        /\ calls[1].ok =>
            LET n == FileCount(CallChannel)
            IN  /\ n = Len(calls[1].files)
                /\ n = 0 => result = Return(FALSE)
                /\ n = 1 => result = Return(TRUE)
                /\ n > 1 => /\ result.kind = "raise"
                            /\ result.exc = "ValueError"
                            /\ "count" \in DOMAIN result
                            /\ result.count = n

\* a poll of a channel holding several files ended with the error naming the count
C1_Witness ==
    /\ call.op = "poll_channel"
    /\ Len(calls) = 1 /\ calls[1].ok
    /\ FileCount(calls[1].channel) > 1
    /\ result = RaiseCount("During polling, found {file_count} files in the channel",
                           FileCount(calls[1].channel))

\* C2: get_file_info, when its listing succeeds, returns None for a channel
\* with 0 files, the name, private URL and id of the one listed file for a
\* channel with exactly 1 file, and raises the ValueError naming the count for
\* more than 1 file; whatever metadata it returns is that of the sole file of
\* the channel it listed.
C2_InspectDecisionTable ==
    call.op = "get_file_info" =>
        /\ (Len(calls) = 1 /\ calls[1].ok) =>
            LET ch == calls[1].channel
                n  == FileCount(ch)
            IN  /\ ch = CallChannel
                /\ n = 0 => result = ReturnNone
                /\ n = 1 => result = ReturnInfo(InfoOf(remote[ch][1]))
                /\ n > 1 => /\ result.kind = "raise"
                            /\ result.exc = "ValueError"
                            /\ "count" \in DOMAIN result
                            /\ result.count = n
        /\ ReturnedVal(result) =>
            /\ Len(calls) = 1 /\ calls[1].ok
            /\ FileCount(calls[1].channel) = 1
            /\ result.info = InfoOf(remote[calls[1].channel][1])

\* an inspect returned the metadata of the one file of its channel while the
\* other channel holds a different file
C2_Witness ==
    /\ call.op = "get_file_info"
    /\ ReturnedVal(result)
    /\ \E ch \in Channels \ {calls[1].channel} : FileCount(ch) >= 1

\* the call listed its channel and the listing succeeded
ListedOk == Len(calls) >= 1 /\ calls[1].api = "files_list" /\ calls[1].ok

\* the positions of the calls to one remote capability
ApiCalls(cs, api) == {i \in 1..Len(cs) : cs[i].api = api}

InvariantViolation(n) == RaiseCount("There are {file_count} files in the channel", n)

\* C3: in every step of download_file or delete_file, a byte fetch, a local
\* write or a remote delete happens only after the call's own inspect listed
\* the channel and saw exactly one file, and it is about that file; when the
\* channel holds more than one file the call raises (the ValueError naming the
\* count whenever the listing succeeds) and fetches, writes and deletes
\* nothing.
C3_Step ==
    call'.op \in {"download_file", "delete_file"} =>
        LET gets == ApiCalls(calls', "requests.get")
            dels == ApiCalls(calls', "files_delete")
            acted == gets /= {} \/ dels /= {} \/ disk' /= disk \/ remote' /= remote
            ch == CallChannel'
        IN  /\ acted =>
                /\ ListedOk'
                /\ calls'[1].channel = ch
                /\ calls'[1].files = ListFiles(ch)
                /\ Len(remote[ch]) = 1
                /\ \A i \in gets : i > 1 /\ calls'[i].url = remote[ch][1].url_private
                /\ \A i \in dels : i > 1 /\ calls'[i].file = remote[ch][1].id
                /\ disk' /= disk => call'.op = "download_file" /\ gets /= {}
                /\ remote' /= remote => call'.op = "delete_file" /\ dels /= {}
            /\ (ch \in Channels /\ Len(remote[ch]) > 1) =>
                /\ ~acted
                /\ result'.kind = "raise"
                /\ ListedOk' => result' = InvariantViolation(Len(remote[ch]))

C3_CheckNeverBypassed == [][C3_Step]_vars

\* a delete on a channel holding several files stopped at the inspect
C3_Witness ==
    /\ call.op = "delete_file"
    /\ ListedOk /\ Len(calls) = 1
    /\ Len(calls[1].files) > 1
    /\ result = InvariantViolation(Len(calls[1].files))
    /\ FileCount(calls[1].channel) = Len(calls[1].files)

\* C4: a delete_file step on a channel that holds exactly one file (the
\* listing succeeds, a user token is available) makes exactly one files_delete
\* call, for the id of that file, right after the listing; when that call
\* succeeds the step returns True and the file is gone, and the step returns
\* nothing else.
C4_Step ==
    (/\ call'.op = "delete_file"
     /\ ListedOk'
     /\ Len(remote[calls'[1].channel]) = 1
     /\ create_user_client(config, call'.user_token) /= None) =>
        LET ch   == calls'[1].channel
            dels == ApiCalls(calls', "files_delete")
        IN  /\ dels = {2}
            /\ Len(calls') = 2
            /\ calls'[2].file = remote[ch][1].id
            /\ calls'[2].token = create_user_client(config, call'.user_token)
            /\ calls'[2].ok => (result' = Return(TRUE) /\ remote'[ch] = <<>>)
            /\ ~calls'[2].ok => (result'.kind = "raise" /\ remote' = remote)

C4_DeleteOnceWithId == [][C4_Step]_vars

\* a delete returned True after one files_delete call and the channel is empty
C4_Witness ==
    /\ call.op = "delete_file"
    /\ result = Return(TRUE)
    /\ Cardinality(ApiCalls(calls, "files_delete")) = 1
    /\ FileCount(calls[1].channel) = 0

\* C5: a delete_file step on a channel that holds no file (the listing
\* succeeds) returns False, makes no files_delete call and leaves every
\* channel's files as they were.
C5_Step ==
    (/\ call'.op = "delete_file"
     /\ ListedOk'
     /\ Len(remote[calls'[1].channel]) = 0) =>
        /\ result' = Return(FALSE)
        /\ ApiCalls(calls', "files_delete") = {}
        /\ Len(calls') = 1
        /\ remote' = remote

C5_DeleteAbsent == [][C5_Step]_vars

\* a delete found an empty channel and returned False
C5_Witness ==
    /\ call.op = "delete_file"
    /\ ListedOk
    /\ FileCount(calls[1].channel) = 0
    /\ result = Return(FALSE)

\* C6: a download_file step on a channel that holds no file (the listing
\* succeeds) returns None, makes no requests.get call and leaves the local
\* files as they were.
C6_Step ==
    (/\ call'.op = "download_file"
     /\ ListedOk'
     /\ Len(remote[calls'[1].channel]) = 0) =>
        /\ result' = ReturnNone
        /\ ApiCalls(calls', "requests.get") = {}
        /\ Len(calls') = 1
        /\ disk' = disk

C6_DownloadAbsent == [][C6_Step]_vars

\* a download found an empty channel and returned None
C6_Witness ==
    /\ call.op = "download_file"
    /\ ListedOk
    /\ FileCount(calls[1].channel) = 0
    /\ result = ReturnNone

\* C7: a download_file step on a channel that holds exactly one file, when it
\* returns, returns output_dir/name of that file, and the local file at that
\* path then holds exactly the file's remote payload, whatever was there
\* before; no other local file changes.
C7_Step ==
    (/\ call'.op = "download_file"
     /\ ListedOk'
     /\ Len(remote[calls'[1].channel]) = 1
     /\ result'.kind = "return") =>
        LET f    == remote[calls'[1].channel][1]
            path == JoinPath(call'.output_dir, f.name)
        IN  /\ result' = ReturnPath(path)
            /\ ApiCalls(calls', "requests.get") = {2}
            /\ calls'[2].ok
            /\ DOMAIN disk' = DOMAIN disk \cup {path}
            /\ disk'[path] = f.content
            /\ \A q \in DOMAIN disk \ {path} : disk'[q] = disk[q]

C7_DownloadContent == [][C7_Step]_vars

\* a download returned the path of an older local file and replaced its content
C7_Witness ==
    /\ call.op = "download_file"
    /\ result = ReturnPath(<<"out", "a.png">>)
    /\ InitDisk[<<"out", "a.png">>] /= disk[<<"out", "a.png">>]
    /\ disk[<<"out", "a.png">>] = remote[calls[1].channel][1].content

\* C8: an upload_file step whose file_path names no local file raises without
\* any remote call (no client, no upload, no listing) and leaves the remote
\* files as they were; with a channel id passed or configured the error is
\* FileNotFoundError, also when no bot token is available.
C8_Step ==
    (call'.op = "upload_file" /\ ~exists(disk, call'.file_path)) =>
        /\ calls' = <<>>
        /\ remote' = remote
        /\ nextId' = nextId
        /\ result'.kind = "raise"
        /\ CallChannel' /= None => result'.exc = "FileNotFoundError"

C8_UploadMissingFile == [][C8_Step]_vars

\* an upload of a missing file, with no bot token at hand, raised FileNotFoundError
C8_Witness ==
    /\ call.op = "upload_file"
    /\ ~exists(disk, call.file_path)
    /\ CallChannel /= None
    /\ CallBotToken = None
    /\ result.kind = "raise" /\ result.exc = "FileNotFoundError"
    /\ calls = <<>>

\* the ValueError an operation raises for a channel with n > 1 files
TooManyFiles(op, n) ==
    IF op = "poll_channel"
    THEN RaiseCount("During polling, found {file_count} files in the channel", n)
    ELSE InvariantViolation(n)

\* C9: an upload_file step with a channel, an existing file and a bot token
\* makes the upload call without listing the channel and, when the call
\* succeeds, appends one new file whatever the channel already holds; so a
\* channel with two or more successful uploads since its last delete holds
\* more than one file, and every poll_channel, get_file_info, download_file or
\* delete_file step whose listing sees more than one file raises the
\* ValueError naming the count, removes no file and writes no local file.
C9_Step ==
    /\ (/\ call'.op = "upload_file"
        /\ CallChannel' \in Channels
        /\ exists(disk, call'.file_path)
        /\ CallBotToken' /= None) =>
            LET ch == CallChannel'
            IN  /\ Len(calls') = 1
                /\ calls'[1].api = "files_upload_v2"
                /\ calls'[1].channel = ch
                /\ calls'[1].ok =>
                    /\ result'.kind = "return"
                    /\ Len(remote'[ch]) = Len(remote[ch]) + 1
                    /\ SubSeq(remote'[ch], 1, Len(remote[ch])) = remote[ch]
                    /\ FilesById(remote'[ch][Len(remote'[ch])].id) = {}
                    /\ \A c \in Channels \ {ch} : remote'[c] = remote[c]
    /\ \A ch \in Channels : pubs'[ch] >= 2 => Len(remote'[ch]) > 1
    /\ (/\ call'.op \in {"poll_channel", "get_file_info", "download_file", "delete_file"}
        /\ ListedOk'
        /\ Len(remote[calls'[1].channel]) > 1) =>
            /\ result' = TooManyFiles(call'.op, Len(remote[calls'[1].channel]))
            /\ Len(calls') = 1
            /\ remote' = remote
            /\ disk' = disk

C9_PublishUncheckedThenReported == [][C9_Step]_vars

\* after two uploads to a channel with no delete in between, a download there
\* ended with the error naming the count
C9_Witness ==
    /\ call.op = "download_file"
    /\ ListedOk
    /\ pubs[calls[1].channel] >= 2
    /\ result = InvariantViolation(FileCount(calls[1].channel))

\* no user token is configured, and none is passed to the call
UserTokenAbsent ==
    /\ config.user_token = None
    /\ call.op \in {"delete_file", "test_user_auth"} => call.user_token = None

\* the call's function gives, for the call's arguments and whatever the
\* network does, the same outcome under the configuration cfg as under the
\* loaded one
SameOutcomeUnder(cfg) ==
    CASE call.op = "poll_channel" ->
            \A net \in BOOLEAN :
                poll_channel(cfg, call.channel_id, call.bot_token, net)
                    = poll_channel(config, call.channel_id, call.bot_token, net)
      [] call.op = "get_file_info" ->
            \A net \in BOOLEAN :
                get_file_info(cfg, call.channel_id, call.bot_token, net)
                    = get_file_info(config, call.channel_id, call.bot_token, net)
      [] call.op = "download_file" ->
            \A env \in DownloadEnvs :
                download_file(cfg, call.output_dir, call.channel_id, call.bot_token, env,
                              disk, handles)
                    = download_file(config, call.output_dir, call.channel_id,
                                    call.bot_token, env, disk, handles)
      [] call.op = "upload_file" ->
            \A net \in BOOLEAN :
                upload_file(cfg, call.file_path, call.title, call.channel_id,
                            call.bot_token, net, disk)
                    = upload_file(config, call.file_path, call.title, call.channel_id,
                                  call.bot_token, net, disk)
      [] call.op = "send_message" ->
            \A net \in BOOLEAN :
                send_message(cfg, call.message, call.channel_id, call.bot_token, net)
                    = send_message(config, call.message, call.channel_id, call.bot_token, net)
      [] OTHER -> TRUE

\* without a user token, poll, inspect, download, upload and send behave as
\* they do with any user token configured
C10_OthersUnaffected ==
    config.user_token = None =>
        \A u \in EnvUserToken \ {None} : SameOutcomeUnder([config EXCEPT !.user_token = u])

\* the errors for a missing channel id or credential
ConfigurationErrors == {NoChannelError, NoBotTokenError, NoUserTokenError}

\* C10 as stated: without a user token the other operations are unaffected,
\* and every delete_file call (whose remote calls all succeed) ends with a
\* configuration error and deletes nothing.
C10_Original ==
    /\ C10_OthersUnaffected
    /\ (/\ call.op = "delete_file"
        /\ UserTokenAbsent
        /\ \A i \in 1..Len(calls) : calls[i].ok) =>
            /\ result \in ConfigurationErrors
            /\ ApiCalls(calls, "files_delete") = {}

\* a delete_file step with no user token: nothing is deleted; the missing
\* token is reported only when the listing found exactly one file
C10_DeleteStep ==
    (call'.op = "delete_file" /\ UserTokenAbsent') =>
        /\ remote' = remote
        /\ ApiCalls(calls', "files_delete") = {}
        /\ ListedOk' =>
            LET n == Len(remote[calls'[1].channel])
            IN  /\ n = 1 => result' = NoUserTokenError
                /\ n = 0 => result' = Return(FALSE)
                /\ n > 1 => result' = InvariantViolation(n)

\* C10 (amended): without a user token, poll_channel, get_file_info,
\* download_file, upload_file and send_message behave exactly as with one, and
\* delete_file never deletes anything: it raises the "user_token not provided"
\* ValueError when its listing finds exactly one file, returns False when the
\* channel is empty and raises the ValueError naming the count when the channel
\* holds more than one file.
C10_UserTokenOptional == []C10_OthersUnaffected /\ [][C10_DeleteStep]_vars

\* a delete without any user token found one file and raised the
\* configuration error, leaving the file in place
C10_Witness ==
    /\ call.op = "delete_file"
    /\ UserTokenAbsent
    /\ ListedOk
    /\ FileCount(calls[1].channel) = 1
    /\ result = NoUserTokenError

\* the functions that take a channel id, and the remote calls a bot client makes
ChannelOps == {"poll_channel", "get_file_info", "download_file", "upload_file",
               "delete_file", "send_message"}
BotApis == {"files_list", "files_upload_v2", "chat_postMessage", "requests.get"}

\* the user token a call resolves to
CallUserToken == create_user_client(config, call.user_token)

\* the credential argument of the call
PassedCredential ==
    IF call.op \in {"delete_file", "test_user_auth"} THEN call.user_token ELSE call.bot_token

\* a call that takes a channel id and has neither one passed nor one configured
\* raised the "channel_id not provided" ValueError before any remote call;
\* otherwise every remote call that names a channel names the passed one, or
\* the configured one when none was passed, and a byte fetch is for a file of
\* that channel
TargetsCallChannel ==
    call.op \in ChannelOps =>
        /\ CallChannel = None => (result = NoChannelError /\ calls = <<>>)
        /\ \A i \in 1..Len(calls) :
            /\ "channel" \in DOMAIN calls[i] => calls[i].channel = CallChannel
            /\ (calls[i].api = "requests.get" /\ calls[i].ok) =>
                    \E j \in 1..FileCount(CallChannel) :
                        remote[CallChannel][j].url_private = calls[i].url

\* C11 as stated: a passed channel id takes precedence over the configured
\* one, a call without any channel id fails before any remote call, and every
\* remote call of an operation uses the credential passed to it, the
\* configured one (bot token for listing, upload, post, byte fetch and bot
\* auth test; user token for delete and user auth test) only when none is
\* passed.
C11_Original ==
    /\ TargetsCallChannel
    /\ call.op /= "none" =>
        \A i \in 1..Len(calls) :
            calls[i].token =
                IF PassedCredential /= None THEN PassedCredential
                ELSE IF calls[i].api \in BotApis \/ call.op = "test_bot_auth"
                THEN config.bot_token
                ELSE config.user_token

\* C11 (amended): a passed channel id takes precedence over the configured
\* one and a call without any channel id fails before any remote call; every
\* listing, upload, post and byte fetch of poll_channel, get_file_info,
\* download_file, upload_file and send_message uses the passed bot token, the
\* configured one only when none is passed; delete_file takes only a user
\* token: its files_delete call uses the passed user token (the configured one
\* only when none is passed) and its listing always uses the configured bot
\* token; the auth tests use the passed token, else the configured one.
C11_OverridePrecedence ==
    /\ TargetsCallChannel
    /\ call.op \in ChannelOps =>
        \A i \in 1..Len(calls) :
            /\ calls[i].api \in BotApis =>
                calls[i].token =
                    IF call.op = "delete_file" THEN config.bot_token ELSE CallBotToken
            /\ calls[i].api = "files_delete" => calls[i].token = CallUserToken
    /\ call.op = "test_bot_auth" =>
        \A i \in 1..Len(calls) : calls[i].token = create_bot_client(config, call.bot_token)
    /\ call.op = "test_user_auth" =>
        \A i \in 1..Len(calls) : calls[i].token = CallUserToken

\* with a channel and both tokens configured, a delete that was passed another
\* channel and another user token listed the passed channel with the
\* configured bot token and deleted with the passed user token
C11_Witness ==
    /\ call.op = "delete_file"
    /\ config.channel_id /= None /\ config.user_token /= None
    /\ call.channel_id \notin {None, config.channel_id}
    /\ call.user_token \notin {None, config.user_token}
    /\ result = Return(TRUE)
    /\ Len(calls) = 2
    /\ calls[1].channel = call.channel_id /\ calls[1].token = config.bot_token
    /\ calls[2].api = "files_delete" /\ calls[2].token = call.user_token

\* C12: every call that ends with an error has logged exactly one error record
\* (never none, never two along download_file -> get_file_info or
\* delete_file -> get_file_info), and no failure is swallowed: a call in which
\* a remote call failed ends with an error, and the error raised for a missing
\* channel id or token, for more than one file or for a missing local file
\* reaches the caller.
C12_LoggedOncePropagated ==
    call.op /= "none" =>
        /\ (\E i \in 1..Len(calls) : ~calls[i].ok) => result.kind = "raise"
        /\ result.kind = "raise" => errlogs = 1

\* the connection broke while the chunks of the payload were being read
MidStreamFailure(r) == r = Raise("RequestException", "iter_content")

\* a is an initial part of b
IsPrefix(a, b) == Len(a) <= Len(b) /\ a = SubSeq(b, 1, Len(a))

\* C13: a download_file step leaves no file handle open, however it ends
\* (None, the path, or any error, a failure while reading a later chunk
\* included): the handle it opened on output_dir/file_name is closed again.
\* Nothing is cleaned up: after a failure in the middle of the stream the
\* file at output_dir/file_name exists and holds exactly the bytes written so
\* far, an initial part of the remote payload that is shorter than it, in
\* place of whatever the path held before; no other local file changes.
C13_Step ==
    call'.op = "download_file" =>
        /\ handles' = handles
        /\ handles' = {}
        /\ MidStreamFailure(result') =>
            LET f    == remote[calls'[1].channel][1]
                path == JoinPath(call'.output_dir, f.name)
            IN  /\ ListedOk' /\ Len(calls') = 2 /\ calls'[2].ok
                /\ DOMAIN disk' = DOMAIN disk \cup {path}
                /\ IsPrefix(disk'[path], f.content)
                /\ Len(disk'[path]) < Len(f.content)
                /\ \A q \in DOMAIN disk \ {path} : disk'[q] = disk[q]

C13_HandleClosedPartialKept == [][C13_Step]_vars

\* a download broke after the first byte: no handle is open and the older
\* local file now holds that one byte of the two-byte payload
C13_Witness ==
    /\ call.op = "download_file"
    /\ MidStreamFailure(result)
    /\ handles = {}
    /\ Len(disk[<<"out", "a.png">>]) = 1
    /\ IsPrefix(disk[<<"out", "a.png">>], remote[calls[1].channel][1].content)
    /\ Len(remote[calls[1].channel][1].content) = 2

====
